---- MODULE Spec2Model ----
(***************************************************************************)
(* Laptop Catalog API (src/main.py): a FastAPI layer over one "products"   *)
(* table of an external store.  The model keeps the table, the read-only   *)
(* configuration, and the last request together with its response.         *)
(*                                                                         *)
(* Optional values are sequences of length at most one: <<>> is None and   *)
(* <<v>> is the value v.  Text that is searched is a sequence of one-      *)
(* character strings, so that ILIKE patterns can be matched character by   *)
(* character.                                                              *)
(***************************************************************************)
EXTENDS Integers, Sequences, FiniteSets, TLC

VARIABLES ADMIN_TOKEN, supabase, products, last, deleted

vars == <<ADMIN_TOKEN, supabase, products, last, deleted>>

\* ---------------------------------------------------------------- bounds
\* Ids the store may assign are 1..MaxId (the table holds at most MaxId rows).
MaxId == 2

Ids == 1..MaxId

None == <<>>

Some(v) == <<v>>

\* ---------------------------------------------------------------- schema
Fields == {"brand", "model", "title", "description", "price", "sale_price",
           "stock", "image_url", "colors", "tags", "specs", "published"}

\* LaptopSpec, reduced to two of its optional members (the nested record is
\* only ever stored and returned whole).
LaptopSpec(cpu, ram) == [cpu |-> cpu, ram_gb |-> ram]

\* ProductUpdate(): every field None.
ProductUpdate == [f \in Fields |-> None]

\* Field(ge=...) constraints of ProductBase / ProductUpdate / LaptopSpec.
FieldsValid(p) ==
    /\ p["price"] # None => p["price"][1] >= 0
    /\ p["sale_price"] # None => p["sale_price"][1] >= 0
    /\ p["stock"] # None => p["stock"][1] >= 0
    /\ p["specs"] # None =>
          (p["specs"][1].ram_gb # None => p["specs"][1].ram_gb[1] >= 1)

\* ProductCreate: brand, model and price are required.
ProductCreateValid(p) ==
    /\ p["brand"] # None
    /\ p["model"] # None
    /\ p["price"] # None
    /\ FieldsValid(p)

\* Mutant of ProductBaseDict: omitted fields are sent as null.
ProductBaseDictNoDefaults(p) == p

\* payload.dict() of a ProductCreate: omitted stock / published take the
\* declared defaults, every other omitted field stays None.
ProductBaseDict(p) ==
    [f \in Fields |->
        IF f = "stock" /\ p[f] = None THEN Some(0)
        ELSE IF f = "published" /\ p[f] = None THEN Some(TRUE)
        ELSE p[f]]

\* ---------------------------------------------------------------- inputs
TokenA == "s3cret"

\* os.getenv("ADMIN_TOKEN"): unset, empty, or a secret.
AdminTokens == {None, Some(""), Some(TokenA)}

\* X-Admin-Token header: missing, empty, the secret, or another string.
Headers == {None, Some(""), Some(TokenA), Some("S3CRET")}

PayloadA ==
    [ProductUpdate EXCEPT !["brand"] = Some(<<"D", "e">>),
                          !["model"] = Some(<<"x">>),
                          !["price"] = Some(9)]

PayloadB ==
    [ProductUpdate EXCEPT !["brand"] = Some(<<"h", "p">>),
                          !["model"] = Some(<<"P">>),
                          !["title"] = Some(<<"H", "i">>),
                          !["description"] = Some(<<"x", "p">>),
                          !["price"] = Some(0),
                          !["sale_price"] = Some(0),
                          !["stock"] = Some(3),
                          !["published"] = Some(FALSE),
                          !["image_url"] = Some("u"),
                          !["colors"] = Some(<<"red">>),
                          !["tags"] = Some(<<"ssd">>),
                          !["specs"] = Some(LaptopSpec(Some("i7"), Some(8)))]

PayloadBad == [PayloadA EXCEPT !["price"] = Some(-1)]

CreatePayloads == {PayloadA, PayloadB, PayloadBad}

\* {published: false, stock: 0, title: "", tags: []}: every value is falsy.
UpdateFalsy ==
    [ProductUpdate EXCEPT !["published"] = Some(FALSE),
                          !["stock"] = Some(0),
                          !["title"] = Some(<<>>),
                          !["tags"] = Some(<<>>)]

UpdateBrand ==
    [ProductUpdate EXCEPT !["brand"] = Some(<<"h", "p">>),
                          !["published"] = Some(TRUE)]

UpdateBad == [ProductUpdate EXCEPT !["stock"] = Some(-1)]

UpdatePayloads == {ProductUpdate, UpdateFalsy, UpdateBrand, UpdateBad}

\* q / brand query parameters.
Queries == {None, Some(<<>>), Some(<<"x">>), Some(<<"_">>)}

BrandFilters == {None, Some(<<>>), Some(<<"H">>)}

TagFilters == {None, Some(""), Some("ssd")}

\* ---------------------------------------------------------------- text
Lower(c) ==
    CASE c = "D" -> "d"
      [] c = "H" -> "h"
      [] c = "P" -> "p"
      [] OTHER -> c

RECURSIVE LowerStr(_)
LowerStr(s) == IF s = <<>> THEN <<>> ELSE <<Lower(Head(s))>> \o LowerStr(Tail(s))

\* SQL LIKE: % matches any run of characters, _ matches any one character.
RECURSIVE Like(_, _)
Like(s, pat) ==
    IF pat = <<>> THEN s = <<>>
    ELSE IF Head(pat) = "%"
         THEN Like(s, Tail(pat)) \/ (s # <<>> /\ Like(Tail(s), pat))
    ELSE IF Head(pat) = "_"
         THEN s # <<>> /\ Like(Tail(s), Tail(pat))
    ELSE s # <<>> /\ Head(s) = Head(pat) /\ Like(Tail(s), Tail(pat))

\* column ILIKE pattern; a NULL column matches nothing.
ilike(col, pat) == col # None /\ Like(LowerStr(col[1]), LowerStr(pat))

\* f"%{x}%"
Wrap(x) == <<"%">> \o x \o <<"%">>

\* tags @> [tag]
contains(col, tag) ==
    col # None /\ \E i \in 1..Len(col[1]) : col[1][i] = tag

\* ---------------------------------------------------------------- store
\* The "products" table is a function from the ids in use to rows; a row
\* carries its id and the twelve product fields.
Row(id, data) == [f \in Fields \cup {"id"} |-> IF f = "id" THEN id ELSE data[f]]

RECURSIVE OrderDesc(_, _)
\* .order("id", desc=True) over the rows of tbl whose id is in S.
OrderDesc(tbl, S) ==
    IF S = {} THEN <<>>
    ELSE LET m == CHOOSE i \in S : \A j \in S : j <= i
         IN  <<tbl[m]>> \o OrderDesc(tbl, S \ {m})

\* .insert(data).select("*").single(): the store assigns the id.
Insert(tbl, data, id) ==
    [table |-> [i \in DOMAIN tbl \cup {id} |->
                   IF i = id THEN Row(id, data) ELSE tbl[i]],
     data  |-> <<Row(id, data)>>]

\* .update(updates).eq("id", id).select("*").single(): only the columns
\* named in keys are written; no row matches -> no data.
Update(tbl, keys, payload, id) ==
    IF id \in DOMAIN tbl
    THEN LET new == [f \in DOMAIN tbl[id] |->
                        IF f \in keys THEN payload[f] ELSE tbl[id][f]]
         IN  [table |-> [tbl EXCEPT ![id] = new], data |-> <<new>>]
    ELSE [table |-> tbl, data |-> <<>>]

\* Mutant of Delete: the rows are reported but stay in the table.
DeleteKeepsRow(tbl, id, counted) ==
    LET hit == IF id \in DOMAIN tbl THEN <<tbl[id]>> ELSE <<>>
    IN  [table |-> tbl,
         data  |-> hit,
         count |-> IF counted THEN Some(Len(hit)) ELSE None]

\* .delete().eq("id", id): data holds the removed rows; count is filled
\* only when the store reports an affected-row count.
Delete(tbl, id, counted) ==
    LET hit == IF id \in DOMAIN tbl THEN <<tbl[id]>> ELSE <<>>
    IN  [table |-> [i \in DOMAIN tbl \ {id} |-> tbl[i]],
         data  |-> hit,
         count |-> IF counted THEN Some(Len(hit)) ELSE None]

\* Mutant of SelectSingle: the single-row fetch also filters on published.
SelectSinglePublished(tbl, id) ==
    IF id \in DOMAIN tbl /\ tbl[id]["published"] = Some(TRUE)
    THEN <<tbl[id]>> ELSE <<>>

\* .select("*").eq("id", id).single()
SelectSingle(tbl, id) == IF id \in DOMAIN tbl THEN <<tbl[id]>> ELSE <<>>

\* Mutant of Published: the published filter is dropped.
PublishedOrNot(tbl) == DOMAIN tbl

\* .eq("published", True)
Published(tbl) == {i \in DOMAIN tbl : tbl[i]["published"] = Some(TRUE)}

\* Python truthiness of an Optional[str] query parameter.
Truthy(x, empty) == x # None /\ x[1] # empty

\* ---------------------------------------------------------------- utilities
OK == 200

\* Mutant of require_admin: a request without the header is let through.
require_admin_optional(token, x_admin_token) ==
    IF ~Truthy(token, "") THEN 500
    ELSE IF x_admin_token # None /\ x_admin_token # token THEN 401
    ELSE OK

\* Mutant of require_admin: the check that a secret is configured is missing.
require_admin_unconfigured(token, x_admin_token) ==
    IF x_admin_token # token THEN 401 ELSE OK

\* require_admin: OK when the gate lets the request through.
require_admin(token, x_admin_token) ==
    IF ~Truthy(token, "") THEN 500
    ELSE IF x_admin_token # token THEN 401
    ELSE OK

\* ensure_supabase: the client exists only when the environment is set.
ensure_supabase(sb) == IF sb THEN OK ELSE 500

Response(status, body, calls, tbl) ==
    [status |-> status, body |-> body, calls |-> calls, table |-> tbl]

\* ---------------------------------------------------------------- handlers
\* GET /api/products
list_products(sb, tbl, q, brand, tag) ==
    IF ensure_supabase(sb) # OK THEN Response(500, <<>>, <<>>, tbl)
    ELSE LET hits == {i \in Published(tbl) :
                        /\ Truthy(brand, <<>>) =>
                               ilike(tbl[i]["brand"], Wrap(brand[1]))
                        /\ Truthy(tag, "") => contains(tbl[i]["tags"], tag[1])
                        /\ Truthy(q, <<>>) =>
                               \/ ilike(tbl[i]["title"], Wrap(q[1]))
                               \/ ilike(tbl[i]["description"], Wrap(q[1]))
                               \/ ilike(tbl[i]["model"], Wrap(q[1]))
                               \/ ilike(tbl[i]["brand"], Wrap(q[1]))}
         IN  Response(OK, OrderDesc(tbl, hits), <<"select">>, tbl)

\* GET /api/products/{product_id}
get_product(sb, tbl, product_id) ==
    IF ensure_supabase(sb) # OK THEN Response(500, <<>>, <<>>, tbl)
    ELSE LET data == SelectSingle(tbl, product_id)
         IN  IF data = <<>> THEN Response(404, <<>>, <<"select">>, tbl)
             ELSE Response(OK, data, <<"select">>, tbl)

\* POST /api/admin/products (after the gate and body validation)
create_product(sb, tbl, payload, id) ==
    IF ensure_supabase(sb) # OK THEN Response(500, <<>>, <<>>, tbl)
    ELSE LET res == Insert(tbl, ProductBaseDict(payload), id)
         IN  Response(OK, res.data, <<"insert">>, res.table)

\* Python falsiness of a value of field k.
Falsy(k, v) ==
    CASE k = "published" -> v = FALSE
      [] k \in {"price", "sale_price", "stock"} -> v = 0
      [] k = "image_url" -> v = ""
      [] k = "specs" -> FALSE
      [] OTHER -> v = <<>>

\* Mutant of Updates: "if v" in place of "if v is not None".
UpdatesTruthy(payload) ==
    {k \in Fields : payload[k] # None /\ ~Falsy(k, payload[k][1])}

\* {k: v for k, v in payload.dict().items() if v is not None}
Updates(payload) == {k \in Fields : payload[k] # None}

\* Mutant of NoUpdates: the empty-payload check is missing.
NoUpdatesUnchecked(updates) == FALSE

\* if not updates
NoUpdates(updates) == updates = {}

\* PUT /api/admin/products/{product_id}
update_product(sb, tbl, product_id, payload) ==
    IF ensure_supabase(sb) # OK THEN Response(500, <<>>, <<>>, tbl)
    ELSE LET updates == Updates(payload)
         IN  IF NoUpdates(updates) THEN Response(400, <<>>, <<>>, tbl)
             ELSE LET res == Update(tbl, updates, payload, product_id)
                  IN  IF res.data = <<>>
                      THEN Response(404, <<>>, <<"update">>, res.table)
                      ELSE Response(OK, res.data, <<"update">>, res.table)

\* DELETE /api/admin/products/{product_id}
delete_product(sb, tbl, product_id, counted) ==
    IF ensure_supabase(sb) # OK THEN Response(500, <<>>, <<>>, tbl)
    ELSE LET res == Delete(tbl, product_id, counted)
         IN  IF res.count = Some(0) /\ res.data = <<>>
             THEN Response(404, <<>>, <<"delete">>, res.table)
             ELSE Response(OK, <<>>, <<"delete">>, res.table)

\* GET /api/admin/products
admin_list_products(sb, tbl) ==
    IF ensure_supabase(sb) # OK THEN Response(500, <<>>, <<>>, tbl)
    ELSE Response(OK, OrderDesc(tbl, DOMAIN tbl), <<"select">>, tbl)

\* dependencies=[Depends(require_admin)]: the gate runs before the body is
\* validated and before the handler; a failure of either answers the request.
Admin(gate, valid, tbl, resp) ==
    IF gate # OK THEN Response(gate, <<>>, <<>>, tbl)
    ELSE IF ~valid THEN Response(422, <<>>, <<>>, tbl)
    ELSE resp

\* ---------------------------------------------------------------- state
NoTable == [i \in {} |-> 0]

Request(op, header, id, payload, q, brand, tag) ==
    [op |-> op, header |-> header, id |-> id, payload |-> payload,
     q |-> q, brand |-> brand, tag |-> tag]

\* The request last served, the outcome of the admin gate (0 on the public
\* routes), the response, and the table as it was before the request.
Served(req, gate, resp, before) ==
    [req |-> req, gate |-> gate, status |-> resp.status, body |-> resp.body,
     calls |-> resp.calls, before |-> before]

Init ==
    /\ ADMIN_TOKEN \in AdminTokens
    /\ supabase \in BOOLEAN
    /\ products = NoTable
    /\ last = Served(Request("none", None, 0, ProductUpdate, None, None, None),
                     0, Response(0, <<>>, <<>>, NoTable), NoTable)
    /\ deleted = {}

Serve(req, gate, resp) ==
    /\ products' = resp.table
    /\ last' = Served(req, gate, resp, products)
    /\ UNCHANGED <<ADMIN_TOKEN, supabase>>

ListProducts ==
    \E q \in Queries, brand \in BrandFilters, tag \in TagFilters :
        /\ Serve(Request("list", None, 0, ProductUpdate, q, brand, tag), 0,
                 list_products(supabase, products, q, brand, tag))
        /\ UNCHANGED deleted

GetProduct ==
    \E id \in Ids :
        /\ Serve(Request("get", None, id, ProductUpdate, None, None, None), 0,
                 get_product(supabase, products, id))
        /\ UNCHANGED deleted

\* deleted: the ids removed by a successful delete since the last insert.
CreateProduct ==
    \E h \in Headers, p \in CreatePayloads, id \in Ids :
        LET gate == require_admin(ADMIN_TOKEN, h)
            resp == Admin(gate, ProductCreateValid(p), products,
                          create_product(supabase, products, p, id))
        IN  /\ resp.calls # <<>> => id \notin DOMAIN products
            /\ Serve(Request("create", h, 0, p, None, None, None), gate, resp)
            /\ deleted' = IF resp.calls # <<>> THEN {} ELSE deleted

UpdateProduct ==
    \E h \in Headers, p \in UpdatePayloads, id \in Ids :
        LET gate == require_admin(ADMIN_TOKEN, h)
        IN  /\ Serve(Request("update", h, id, p, None, None, None), gate,
                     Admin(gate, FieldsValid(p), products,
                           update_product(supabase, products, id, p)))
            /\ UNCHANGED deleted

DeleteProduct ==
    \E h \in Headers, id \in Ids, counted \in BOOLEAN :
        LET gate == require_admin(ADMIN_TOKEN, h)
            resp == Admin(gate, TRUE, products,
                          delete_product(supabase, products, id, counted))
        IN  /\ Serve(Request("delete", h, id, ProductUpdate, None, None, None),
                     gate, resp)
            /\ deleted' = IF resp.status = OK /\ id \in DOMAIN products
                          THEN deleted \cup {id} ELSE deleted

AdminListProducts ==
    \E h \in Headers :
        LET gate == require_admin(ADMIN_TOKEN, h)
        IN  /\ Serve(Request("adminList", h, 0, ProductUpdate, None, None, None),
                     gate,
                     Admin(gate, TRUE, products,
                           admin_list_products(supabase, products)))
            /\ UNCHANGED deleted

Next ==
    \/ ListProducts
    \/ GetProduct
    \/ CreateProduct
    \/ UpdateProduct
    \/ DeleteProduct
    \/ AdminListProducts

Spec == Init /\ [][Next]_vars

\* ---------------------------------------------------------------- claims
AdminOps == {"create", "update", "delete", "adminList"}

\* A server secret is configured (set and not empty).
SecretConfigured == ADMIN_TOKEN # None /\ ADMIN_TOKEN # Some("")

\* The last request carried the configured secret.
Authorized == SecretConfigured /\ last.req.header = ADMIN_TOKEN

\* The header of the last request is missing or is not the server's secret.
BadHeader == last.req.header = None \/ last.req.header # ADMIN_TOKEN

Ran(op) == last.req.op = op /\ Authorized /\ supabase

\* C1 (as stated): an admin request whose header is missing or differs from
\* the server secret is answered Unauthorized and leaves the stored products
\* exactly as they were, with no call issued to the store.
C1_Original ==
    (last.req.op \in AdminOps /\ BadHeader) =>
        /\ last.status = 401
        /\ products = last.before
        /\ last.calls = <<>>

\* C1 (amended): such a request is answered Unauthorized when a server secret
\* is configured and with the configuration error when none is; in both cases
\* the stored products are unchanged and no call is issued to the store.
C1_RejectedNoMutation ==
    (last.req.op \in AdminOps /\ BadHeader) =>
        /\ last.status = IF SecretConfigured THEN 401 ELSE 500
        /\ products = last.before
        /\ last.calls = <<>>

C1_Witness ==
    /\ last.req.op = "delete"
    /\ SecretConfigured
    /\ last.req.header = None
    /\ last.req.id \in DOMAIN products
    /\ last.status = 401

\* C2: an authorized update of an existing product with at least one non-null
\* field (falsy values included) sets exactly the non-null fields to the
\* payload's values and leaves the other fields, the id and every other
\* product unchanged.
C2_PartialUpdate ==
    (/\ Ran("update")
     /\ last.req.id \in DOMAIN last.before
     /\ FieldsValid(last.req.payload)
     /\ \E f \in Fields : last.req.payload[f] # None) =>
        LET id == last.req.id
        IN  /\ last.status = OK
            /\ DOMAIN products = DOMAIN last.before
            /\ products[id]["id"] = id
            /\ \A f \in Fields :
                  products[id][f] = IF last.req.payload[f] # None
                                    THEN last.req.payload[f]
                                    ELSE last.before[id][f]
            /\ \A j \in DOMAIN last.before \ {id} :
                  products[j] = last.before[j]
            /\ last.body = <<products[id]>>

C2_Witness ==
    /\ Ran("update")
    /\ last.req.payload = UpdateFalsy
    /\ last.req.id \in DOMAIN last.before
    /\ last.before[last.req.id]["published"] = Some(TRUE)
    /\ last.before[last.req.id]["stock"] = Some(3)
    /\ products[last.req.id]["published"] = Some(FALSE)
    /\ products[last.req.id]["stock"] = Some(0)
    /\ Cardinality(DOMAIN products) = 2

\* C3: an authorized update whose payload has every field null fails with the
\* client error 400, issues no call to the store and leaves the store
\* unchanged, also when the id matches no product (400, not 404).
C3_EmptyUpdateRejected ==
    (Ran("update") /\ \A f \in Fields : last.req.payload[f] = None) =>
        /\ last.status = 400
        /\ last.calls = <<>>
        /\ products = last.before

C3_Witness ==
    /\ Ran("update")
    /\ last.req.payload = ProductUpdate
    /\ last.req.id \notin DOMAIN last.before
    /\ last.before # NoTable
    /\ last.status = 400

\* C4 (as stated): an authorized delete of an id that matches no stored
\* product returns NotFound, whatever count the store reports.
C4_DeleteMissingNotFound ==
    (Ran("delete") /\ last.req.id \notin DOMAIN last.before) =>
        last.status = 404

\* C5: whatever the q, brand and tag filters, the public list never returns
\* a record whose published field is false.
C5_ListOnlyPublished ==
    last.req.op = "list" =>
        \A i \in 1..Len(last.body) : last.body[i]["published"] = Some(TRUE)

C5_Witness ==
    /\ last.req.op = "list"
    /\ last.req.q = Some(<<"_">>)
    /\ Len(last.body) = 1
    /\ \E i \in DOMAIN products : products[i]["published"] = Some(FALSE)

RECURSIVE IsPrefix(_, _)
IsPrefix(x, s) ==
    x = <<>> \/ (s # <<>> /\ Head(x) = Head(s) /\ IsPrefix(Tail(x), Tail(s)))

RECURSIVE IsSubstring(_, _)
IsSubstring(x, s) == IsPrefix(x, s) \/ (s # <<>> /\ IsSubstring(x, Tail(s)))

\* x occurs in the column, ignoring case.
Occurs(x, col) == col # None /\ IsSubstring(LowerStr(x), LowerStr(col[1]))

\* C6 (as stated): the public list is exactly the published records that
\* satisfy every supplied filter, newest id first: brand occurs in brand
\* ignoring case, tag is a member of tags, and q occurs ignoring case in at
\* least one of title, description, model, brand.
C6_ListExact ==
    (last.req.op = "list" /\ supabase) =>
        LET q     == last.req.q
            brand == last.req.brand
            tag   == last.req.tag
            want  == {i \in DOMAIN products :
                        /\ products[i]["published"] = Some(TRUE)
                        /\ Truthy(brand, <<>>) =>
                               Occurs(brand[1], products[i]["brand"])
                        /\ Truthy(tag, "") =>
                               /\ products[i]["tags"] # None
                               /\ \E k \in 1..Len(products[i]["tags"][1]) :
                                      products[i]["tags"][1][k] = tag[1]
                        /\ Truthy(q, <<>>) =>
                               \E f \in {"title", "description", "model", "brand"} :
                                   Occurs(q[1], products[i][f])}
        IN  /\ last.status = OK
            /\ Len(last.body) = Cardinality(want)
            /\ \A k \in 1..Len(last.body) : last.body[k]["id"] \in want
            /\ \A k \in 1..Len(last.body) : last.body[k] = products[last.body[k]["id"]]
            /\ \A k \in 1..(Len(last.body) - 1) :
                  last.body[k]["id"] > last.body[k + 1]["id"]

\* The value a created record is to hold in field f: the payload's value,
\* with stock 0 and published true where the payload omitted them.
Expected(payload, f) ==
    IF payload[f] # None THEN payload[f]
    ELSE IF f = "stock" THEN Some(0)
    ELSE IF f = "published" THEN Some(TRUE)
    ELSE None

\* C7: an authorized create with a valid payload returns a record whose id is
\* not null and not the id of a product stored before, and a get of that id
\* right afterwards returns the payload's values in every other field, with
\* stock 0 and published true where the payload omitted them.
C7_CreateThenGet ==
    (Ran("create") /\ ProductCreateValid(last.req.payload)) =>
        /\ last.status = OK
        /\ Len(last.body) = 1
        /\ last.body[1]["id"] \in Ids
        /\ last.body[1]["id"] \notin DOMAIN last.before
        /\ LET got == get_product(supabase, products, last.body[1]["id"])
           IN  /\ got.status = OK
               /\ got.body[1]["id"] = last.body[1]["id"]
               /\ \A f \in Fields :
                     got.body[1][f] = Expected(last.req.payload, f)

C7_Witness ==
    /\ Ran("create")
    /\ last.req.payload = PayloadA
    /\ last.status = OK
    /\ last.before # NoTable
    /\ last.body[1]["stock"] = Some(0)
    /\ last.body[1]["published"] = Some(TRUE)

RECURSIVE SeqIds(_)
SeqIds(rows) ==
    IF rows = <<>> THEN {} ELSE {Head(rows)["id"]} \cup SeqIds(Tail(rows))

\* C8: once an authorized delete of an existing id has succeeded, and until a
\* later create, get of that id is NotFound and the id is in neither the
\* public list (under any filters) nor adminList; the delete leaves every
\* other product stored unchanged.
C8_DeletedStaysGone ==
    /\ \A id \in deleted :
          /\ get_product(supabase, products, id).status = 404
          /\ id \notin SeqIds(admin_list_products(supabase, products).body)
          /\ \A q \in Queries, brand \in BrandFilters, tag \in TagFilters :
                id \notin SeqIds(list_products(supabase, products, q, brand, tag).body)
          /\ (last.req.op = "get" /\ last.req.id = id) => last.status = 404
    /\ (Ran("delete") /\ last.status = OK /\ last.req.id \in DOMAIN last.before) =>
          /\ last.req.id \in deleted
          /\ DOMAIN products = DOMAIN last.before \ {last.req.id}
          /\ \A j \in DOMAIN products : products[j] = last.before[j]

C8_Witness ==
    /\ last.req.op = "get"
    /\ last.req.id \in deleted
    /\ last.status = 404
    /\ products # NoTable
    /\ last.before = products

\* C9: the admin gate fails with the server error 500 whenever no secret is
\* configured (unset or empty), whatever the header, so no admin request is
\* let through; with a secret configured it fails with 401 exactly when the
\* header is not equal to the secret, and lets the request through otherwise.
C9_AdminGate ==
    last.req.op \in AdminOps =>
        /\ ~SecretConfigured =>
              /\ last.gate = 500
              /\ last.status = 500
              /\ last.calls = <<>>
        /\ SecretConfigured =>
              /\ (last.gate = 401) <=> (last.req.header # ADMIN_TOKEN)
              /\ (last.gate = OK) <=> (last.req.header = ADMIN_TOKEN)
              /\ (last.status = 401) <=> (last.req.header # ADMIN_TOKEN)

C9_Witness ==
    /\ last.req.op = "create"
    /\ ADMIN_TOKEN = Some("")
    /\ last.req.header = Some("")
    /\ supabase
    /\ last.status = 500

\* C10: get returns the stored record with the given id whenever one exists,
\* published or not, and fails with NotFound exactly when none exists.
C10_GetAnyRecord ==
    (last.req.op = "get" /\ supabase) =>
        /\ last.req.id \in DOMAIN products =>
              (last.status = OK /\ last.body = <<products[last.req.id]>>)
        /\ (last.status = 404) <=> (last.req.id \notin DOMAIN products)

\* A product created published and unpublished by an update is returned by
\* get and missing from the unfiltered public list.
C10_Witness ==
    /\ last.req.op = "get"
    /\ last.status = OK
    /\ last.body[1]["brand"] = Some(<<"D", "e">>)
    /\ last.body[1]["published"] = Some(FALSE)
    /\ last.req.id \notin SeqIds(list_products(supabase, products, None, None, None).body)

====
